---- MODULE Spec2Model ----
(***************************************************************************)
(* A model of the weather server: the two tables of app/models.py, the     *)
(* storage operations of app/database.py, the provider client of           *)
(* app/weather_api.py, and the request handler and refresh loop of         *)
(* app/main.py.                                                            *)
(*                                                                         *)
(* Scales.  Time is counted in whole hours since midnight of the first     *)
(* day, so that DayLen = 24 hours make one calendar day; coordinates are   *)
(* counted in tenths of a degree, so the 0.1 degree tolerance of the       *)
(* coordinate lookup is Tol = 1.  Weather values are small integers; Null  *)
(* stands for Python's None / SQL NULL in a weather column.                *)
(***************************************************************************)
EXTENDS Integers, Sequences, FiniteSets, TLC

VARIABLES
    cities,           \* table "cities", in insertion (rowid) order
    weather,          \* table "weather_data", in insertion order
    clock,            \* the latest reading of datetime.now(timezone.utc)
    last,             \* the most recent completed storage call and its result
    asked,            \* names already passed to add_city by completed calls
    req,              \* POST /cities handlers: position and locals of each
    sched,            \* update_weather_periodically: position and locals
    cancelRequested,  \* lifespan has called update_task.cancel()
    cancelledAt       \* where the refresh task was suspended when it ended

vars == <<cities, weather, clock, last, asked, req, sched, cancelRequested, cancelledAt>>

-----------------------------------------------------------------------------
(* Bounds of the model *)

MaxCoord == 2       \* coordinates range over 0..MaxCoord tenths of a degree
MaxObs == 2         \* observations saved in a run of coordinate or field queries
MaxDayObs == 3      \* observations saved in a run of time queries
MaxCycles == 2      \* refresh cycles started by the loop
NumReq == 3         \* POST /cities requests handled concurrently

(* Program constants *)

DayLen == 24        \* timedelta(days=1), in hours
Tol == 1            \* the 0.1 degree tolerance, in tenths of a degree
Null == -1          \* None in an Optional[float] column or dict value

Names == {"Oslo", "Rome"}
Coords == 0 .. MaxCoord

\* hours at which observations are saved and hours asked for, over three days
ObsHours == {8, 12, 18, 24, 30}
AskHours == {0, 10, 13, 23, 26, 50}

-----------------------------------------------------------------------------
(* Python values *)

\* None where a dict or a list is expected
PyNone == [py_none |-> TRUE]

\* the empty dict
EmptyDict == [k \in {} |-> Null]

\* bool(x) of a dict-or-None value, as tested by "if weather_data:"
Truthy(x) == x # PyNone /\ DOMAIN x # {}

\* dict.get(key): None when the key is missing
Get(d, key) == IF key \in DOMAIN d THEN d[key] ELSE Null

\* the elements of a list
Range(s) == {s[i] : i \in 1 .. Len(s)}

-----------------------------------------------------------------------------
(* app/weather_api.py *)

\* the "current" object of the provider's JSON, keyed by provider field names
ProviderCurrent ==
    { [temperature_2m |-> 21, wind_speed_10m |-> 3, surface_pressure |-> 9,
       relative_humidity_2m |-> 50, precipitation |-> 0],
      [temperature_2m |-> 0, wind_speed_10m |-> 3, surface_pressure |-> 9,
       relative_humidity_2m |-> 50],
      EmptyDict }

\* the canonical snapshot built from the provider's "current" object
MapCurrent(current_data) ==
    [temperature   |-> Get(current_data, "temperature_2m"),
     wind_speed    |-> Get(current_data, "wind_speed_10m"),
     pressure      |-> Get(current_data, "surface_pressure"),
     humidity      |-> Get(current_data, "relative_humidity_2m"),
     precipitation |-> Get(current_data, "precipitation")]

\* fetch_weather_data: the snapshot, or None on any error of the request
\* (both except clauses return None, nothing is raised to the caller)
FetchOutcomes(currents) == {PyNone} \cup {MapCurrent(c) : c \in currents}

-----------------------------------------------------------------------------
(* app/models.py and the storage primitives *)

FieldNames == {"temperature", "humidity", "wind_speed", "precipitation", "pressure"}

\* a new row of "cities"; is_active takes its column default
City(id, name, latitude, longitude) ==
    [id |-> id, name |-> name, latitude |-> latitude, longitude |-> longitude,
     is_active |-> TRUE]

\* Result.scalars().one_or_none(): "none", "one" (the row is rows[1]) or
\* "raise" (MultipleResultsFound) when more than one row matches
OneOrNone(rows) ==
    IF Len(rows) = 0 THEN "none" ELSE IF Len(rows) = 1 THEN "one" ELSE "raise"

\* select(City).where(City.name == name)
CitiesByName(cs, name) == SelectSeq(cs, LAMBDA c : c.name = name)

\* a cities table without the UNIQUE constraint (a faulty variant)
UniqueOff(cs, name) == FALSE

\* the UNIQUE constraint on cities.name, checked when the INSERT is flushed
UniqueViolation(cs, name) == \E i \in 1 .. Len(cs) : cs[i].name = name

\* the existence test inverted (a faulty variant)
ExistingInverted(cs, name) == OneOrNone(CitiesByName(cs, name)) = "none"

\* add_city after its SELECT: "if existing_city: return False"; with several
\* rows of the name one_or_none() raises, which also ends in return False
ExistingCity(cs, name) == OneOrNone(CitiesByName(cs, name)) # "none"

\* add_city from session.add to its return: [ret, cities]; an IntegrityError of
\* the commit is caught, rolled back and turned into False
AddCityCommit(cs, name, latitude, longitude) ==
    IF UniqueViolation(cs, name)
    THEN [ret |-> FALSE, cities |-> cs]
    ELSE [ret |-> TRUE,
          cities |-> Append(cs, City(Len(cs) + 1, name, latitude, longitude))]

\* add_city run without suspension between its SELECT and its commit
AddCity(cs, name, latitude, longitude) ==
    IF ExistingCity(cs, name)
    THEN [ret |-> FALSE, cities |-> cs]
    ELSE AddCityCommit(cs, name, latitude, longitude)

\* get_all_cities: the active cities, as dicts
GetAllCities(cs) ==
    LET act == SelectSeq(cs, LAMBDA c : c.is_active)
    IN  [i \in 1 .. Len(act) |->
            [name |-> act[i].name, latitude |-> act[i].latitude,
             longitude |-> act[i].longitude]]

\* the row with 0 in place of an absent field (a faulty variant)
WeatherDataZeroDefault(city_id, now, weather_data) ==
    [city_id |-> city_id, timestamp |-> now,
     temperature   |-> IF Get(weather_data, "temperature") = Null
                       THEN 0 ELSE weather_data["temperature"],
     wind_speed    |-> IF Get(weather_data, "wind_speed") = Null
                       THEN 0 ELSE weather_data["wind_speed"],
     pressure      |-> IF Get(weather_data, "pressure") = Null
                       THEN 0 ELSE weather_data["pressure"],
     humidity      |-> IF Get(weather_data, "humidity") = Null
                       THEN 0 ELSE weather_data["humidity"],
     precipitation |-> IF Get(weather_data, "precipitation") = Null
                       THEN 0 ELSE weather_data["precipitation"]]

\* the row save_weather_data inserts
WeatherData(city_id, now, weather_data) ==
    [city_id |-> city_id, timestamp |-> now,
     temperature   |-> Get(weather_data, "temperature"),
     wind_speed    |-> Get(weather_data, "wind_speed"),
     pressure      |-> Get(weather_data, "pressure"),
     humidity      |-> Get(weather_data, "humidity"),
     precipitation |-> Get(weather_data, "precipitation")]

\* a save that never commits (a faulty variant)
SaveDropped(ws, city_id, now, weather_data) == ws

\* save_weather_data when the commit succeeds
SaveWeatherData(ws, city_id, now, weather_data) ==
    Append(ws, WeatherData(city_id, now, weather_data))

-----------------------------------------------------------------------------
(* get_weather_by_city_and_time *)

Abs(x) == IF x < 0 THEN 0 - x ELSE x

\* A requested time is datetime.fromisoformat(time_str): its wall-clock reading
\* and whether the string carried a UTC offset (an aware datetime).
TimeArgs(ts) == [wall : ts, aware : BOOLEAN]

\* target_time.replace(hour=0, minute=0, second=0, microsecond=0)
StartOfDay(target_time) == target_time.wall - (target_time.wall % DayLen)

\* the three .where() clauses on WeatherData; the DateTime column binds and
\* compares wall-clock readings only
WindowRows(ws, city_id, start_of_day, end_of_day) ==
    SelectSeq(ws, LAMBDA w : /\ w.city_id = city_id
                             /\ w.timestamp >= start_of_day
                             /\ w.timestamp < end_of_day)

\* (w.timestamp - target_time) raises TypeError when target_time is aware:
\* WeatherData.timestamp is a plain DateTime column, so a loaded timestamp is
\* naive, and Python refuses to subtract an aware datetime from a naive one
SubtractRaises(target_time) == target_time.aware

\* the key of min(): abs((w.timestamp - target_time).total_seconds())
Distance(w, target_time) == Abs(w.timestamp - target_time.wall)

\* min(weather, key=...): the first row of least key.  The SELECT has no
\* ORDER BY, so any row of least key may come first.
Closest(rows, target_time) ==
    {rows[i] : i \in {j \in 1 .. Len(rows) :
        \A k \in 1 .. Len(rows) :
            Distance(rows[j], target_time) <= Distance(rows[k], target_time)}}

\* params: None, or a list of names
ParamsNone == [is_none |-> TRUE, items |-> << >>]
ParamsList(items) == [is_none |-> FALSE, items |-> items]

\* the keys added to the response after "city" and "timestamp"
ResponseFields(w, params) ==
    IF params.is_none
    THEN {k \in FieldNames : w[k] # Null}
    ELSE {k \in Range(params.items) \cap FieldNames : w[k] # Null}

\* the response dict built from the chosen row
TimeResponse(city_name, w, params) ==
    [k \in {"city", "timestamp"} \cup ResponseFields(w, params) |->
        IF k = "city" THEN city_name
        ELSE IF k = "timestamp" THEN w.timestamp
        ELSE w[k]]

\* every value get_weather_by_city_and_time can return: a response dict, or
\* None (no such city, no row in the window, or an exception caught at the end)
GetWeatherByCityAndTime(cs, ws, city_name, target_time, params) ==
    LET found == CitiesByName(cs, city_name)
    IN  IF OneOrNone(found) # "one" THEN {PyNone}
        ELSE
          LET city == found[1]
              start_of_day == StartOfDay(target_time)
              end_of_day == start_of_day + DayLen
              rows == WindowRows(ws, city.id, start_of_day, end_of_day)
          IN  IF Len(rows) = 0 THEN {PyNone}
              ELSE IF SubtractRaises(target_time) THEN {PyNone}
              ELSE {TimeResponse(city_name, w, params) :
                        w \in Closest(rows, target_time)}

-----------------------------------------------------------------------------
(* get_current_weather_by_coords *)

\* the five .where() clauses on City
InBox(c, latitude, longitude) ==
    /\ c.latitude >= latitude - Tol
    /\ c.latitude <= latitude + Tol
    /\ c.longitude >= longitude - Tol
    /\ c.longitude <= longitude + Tol
    /\ c.is_active

CitiesNear(cs, latitude, longitude) ==
    SelectSeq(cs, LAMBDA c : InBox(c, latitude, longitude))

\* the same ordered by ascending timestamp (a faulty variant)
LatestOldest(ws, city_id) ==
    {ws[i] : i \in {j \in 1 .. Len(ws) :
        /\ ws[j].city_id = city_id
        /\ \A k \in 1 .. Len(ws) :
              ws[k].city_id = city_id => ws[j].timestamp <= ws[k].timestamp}}

\* .order_by(WeatherData.timestamp.desc()).limit(1): a row of the city with
\* the greatest timestamp (any of them when several share it)
Latest(ws, city_id) ==
    {ws[i] : i \in {j \in 1 .. Len(ws) :
        /\ ws[j].city_id = city_id
        /\ \A k \in 1 .. Len(ws) :
              ws[k].city_id = city_id => ws[j].timestamp >= ws[k].timestamp}}

CoordsResponse(city, w) ==
    [city |-> city.name, temperature |-> w.temperature,
     wind_speed |-> w.wind_speed, pressure |-> w.pressure,
     timestamp |-> w.timestamp]

\* every value get_current_weather_by_coords can return; MultipleResultsFound
\* from one_or_none() is caught by the except clause and None is returned
GetCurrentWeatherByCoords(cs, ws, latitude, longitude) ==
    LET near == CitiesNear(cs, latitude, longitude)
    IN  IF OneOrNone(near) # "one" THEN {PyNone}
        ELSE IF Latest(ws, near[1].id) = {} THEN {PyNone}
        ELSE {CoordsResponse(near[1], w) : w \in Latest(ws, near[1].id)}

-----------------------------------------------------------------------------
(* The state after startup: init_db has created two empty tables, no request
   is being handled, and lifespan has created the refresh task, which waits
   for its first get_all_cities. *)

\* the request handlers that can be in progress at once
Reqs == 1 .. NumReq

\* the handlers that run beside the refresh task in Spec
Handlers == {1, 2}

ReqIdle == [pc |-> "idle", name |-> "", latitude |-> 0, longitude |-> 0,
            ret |-> "pending", raced |-> FALSE, weather_data |-> PyNone,
            city_id |-> 0, saved |-> FALSE, status |-> "none"]

SchedStart == [pc |-> "list", cities |-> << >>, idx |-> 1,
               weather_data |-> PyNone, city_id |-> 0, listed |-> FALSE,
               fetched |-> {}, failed |-> FALSE, prev_failed |-> FALSE,
               cycles |-> 1]

Init ==
    /\ cities = << >>
    /\ weather = << >>
    /\ clock = 0
    /\ last = [op |-> "none"]
    /\ asked = {}
    /\ req = [r \in Reqs |-> ReqIdle]
    /\ sched = SchedStart
    /\ cancelRequested = FALSE
    /\ cancelledAt = "none"

service == <<req, sched, cancelRequested, cancelledAt>>

-----------------------------------------------------------------------------
(* Storage calls made one after another, each run to completion *)

\* the snapshots fetch_weather_data can hand to save_weather_data
Snapshots == {MapCurrent(c) : c \in ProviderCurrent}

\* a provider answer with every field present, and its snapshot
SnapSource == [temperature_2m |-> 21, wind_speed_10m |-> 3, surface_pressure |-> 9,
               relative_humidity_2m |-> 50, precipitation |-> 0]

SnapFull == MapCurrent(SnapSource)

\* await add_city(name, latitude, longitude)
AddCityCall(name, latitude, longitude) ==
    LET r == AddCity(cities, name, latitude, longitude)
    IN  /\ cities' = r.cities
        /\ last' = [op |-> "add_city", name |-> name, ret |-> r.ret,
                    first |-> name \notin asked, changed |-> r.cities # cities]
        /\ asked' = asked \cup {name}
        /\ UNCHANGED <<weather, clock, service>>

\* await save_weather_data(city_id, weather_data), the clock reading now
SaveCall(city_id, weather_data, now) ==
    /\ city_id \in 1 .. Len(cities)
    /\ now >= clock
    /\ weather' = SaveWeatherData(weather, city_id, now, weather_data)
    /\ clock' = now
    /\ last' = [op |-> "save", city_id |-> city_id, weather_data |-> weather_data,
                now |-> now]
    /\ UNCHANGED <<cities, asked, service>>

\* await get_weather_by_city_and_time(city_name, time_str, params)
QueryTimeCall(city_name, target_time, params) ==
    /\ \E result \in GetWeatherByCityAndTime(cities, weather, city_name,
                                             target_time, params) :
          last' = [op |-> "by_time", city_name |-> city_name,
                   target_time |-> target_time, params |-> params,
                   result |-> result]
    /\ UNCHANGED <<cities, weather, clock, asked, service>>

\* await get_current_weather_by_coords(latitude, longitude)
QueryCoordsCall(latitude, longitude) ==
    /\ \E result \in GetCurrentWeatherByCoords(cities, weather, latitude, longitude) :
          last' = [op |-> "by_coords", latitude |-> latitude,
                   longitude |-> longitude, result |-> result]
    /\ UNCHANGED <<cities, weather, clock, asked, service>>

\* clock readings no more than one hour after the previous one
NextReadings == {clock, clock + 1}

\* cities anywhere on the grid's two outer meridians, and coordinate lookups
NextNear ==
    \/ \E name \in Names, lat \in Coords, lon \in {0, MaxCoord} :
          AddCityCall(name, lat, lon)
    \/ \E id \in 1 .. Len(cities), now \in NextReadings :
          Len(weather) < MaxObs /\ SaveCall(id, SnapFull, now)
    \/ \E lat \in Coords, lon \in Coords : QueryCoordsCall(lat, lon)

SpecNear == Init /\ [][NextNear]_vars

\* field filters: none, empty, one field, a field and an unknown name, two fields
ParamChoices ==
    {ParamsNone, ParamsList(<< >>), ParamsList(<<"temperature">>),
     ParamsList(<<"precipitation", "dew_point">>),
     ParamsList(<<"humidity", "temperature">>)}

\* observations with and without absent fields, and filtered queries
NextFields ==
    \/ \E name \in Names : AddCityCall(name, 0, 0)
    \/ \E id \in 1 .. Len(cities), wd \in Snapshots, now \in NextReadings :
          Len(weather) < MaxObs /\ SaveCall(id, wd, now)
    \/ \E name \in Names, p \in ParamChoices :
          QueryTimeCall(name, [wall |-> 0, aware |-> FALSE], p)

SpecFields == Init /\ [][NextFields]_vars

\* observations spread over two days, and queries for times of three days
NextTime ==
    \/ \E name \in Names : AddCityCall(name, 0, 0)
    \/ \E id \in 1 .. Len(cities), now \in ObsHours :
          Len(weather) < MaxDayObs /\ SaveCall(id, SnapFull, now)
    \/ \E name \in Names, t \in TimeArgs(AskHours) :
          QueryTimeCall(name, t, ParamsNone)

SpecTime == Init /\ [][NextTime]_vars

-----------------------------------------------------------------------------
(* Properties of the storage calls *)

\* the rows of a table, as a set
Rows(table) == {table[i] : i \in 1 .. Len(table)}

\* the stored rows named name
Named(name) == {c \in Rows(cities) : c.name = name}

\* the stored observations of the city with this id
ObsOf(city_id) == {w \in Rows(weather) : w.city_id = city_id}

\* C1: of the add_city calls made one after another with one name, the first
\* returns true, every later one returns false and leaves storage unchanged,
\* and storage then holds exactly one city row with that name.
C1_SecondAddRejected ==
    /\ \A n \in asked : Cardinality(Named(n)) = 1
    /\ last.op = "add_city" =>
          /\ last.ret = last.first
          /\ ~last.first => ~last.changed
          /\ Len(CitiesByName(cities, last.name)) = 1

C1_Witness ==
    /\ last.op = "add_city"
    /\ ~last.first
    /\ ~last.ret
    /\ Len(cities) = 1

\* the active cities inside the box of 0.1 degree around the last coordinate
\* lookup
NearLast ==
    {c \in Rows(cities) :
        /\ c.is_active
        /\ Abs(c.latitude - last.latitude) <= Tol
        /\ Abs(c.longitude - last.longitude) <= Tol}

\* result is the response for an observation of city c of greatest timestamp
IsLatestOf(result, c) ==
    /\ result # PyNone
    /\ result.city = c.name
    /\ \E w \in ObsOf(c.id) :
          /\ \A v \in ObsOf(c.id) : v.timestamp <= w.timestamp
          /\ result.timestamp = w.timestamp
          /\ result.temperature = w.temperature
          /\ result.wind_speed = w.wind_speed
          /\ result.pressure = w.pressure

\* C4: get_current_weather_by_coords returns not-found when no active city is
\* within 0.1 degree of both coordinates; when exactly one is, it returns that
\* city's observation of greatest timestamp, or not-found if the city has none.
C4_LatestOfTheCityNear ==
    last.op = "by_coords" =>
        /\ NearLast = {} => last.result = PyNone
        /\ \A c \in NearLast :
              NearLast = {c} =>
                 IF ObsOf(c.id) = {} THEN last.result = PyNone
                 ELSE IsLatestOf(last.result, c)

C4_Witness ==
    /\ last.op = "by_coords"
    /\ Len(cities) = 2
    /\ \E c \in NearLast :
          /\ NearLast = {c}
          /\ \E v, w \in ObsOf(c.id) : v.timestamp < w.timestamp
          /\ IsLatestOf(last.result, c)

\* C8: when more than one active city is inside the box and one of them has
\* observations, get_current_weather_by_coords returns the latest observation
\* of one of the matching cities, not not-found.
C8_PicksOneOfSeveral ==
    (/\ last.op = "by_coords"
     /\ Cardinality(NearLast) > 1
     /\ \E c \in NearLast : ObsOf(c.id) # {})
        => \E c \in NearLast : IsLatestOf(last.result, c)

\* the non-null canonical fields of an observation
NonNull(w) == {k \in FieldNames : w[k] # Null}

\* C5: a field absent from the snapshot is stored as absent, and the keys of a
\* response are city, timestamp and the observation's non-null canonical
\* fields, restricted to the names of the filter when one is given.
C5_AbsentStaysAbsent ==
    /\ last.op = "save" =>
          LET w == weather[Len(weather)]
          IN  \A k \in FieldNames :
                 /\ w[k] = Get(last.weather_data, k)
                 /\ Get(last.weather_data, k) = Null => w[k] = Null
    /\ (last.op = "by_time" /\ last.result # PyNone) =>
          \E c \in Named(last.city_name) : \E w \in ObsOf(c.id) :
              /\ last.result.timestamp = w.timestamp
              /\ DOMAIN last.result =
                    {"city", "timestamp"} \cup
                    (IF last.params.is_none THEN NonNull(w)
                     ELSE NonNull(w) \cap Range(last.params.items))
              /\ \A k \in DOMAIN last.result \cap FieldNames :
                    last.result[k] = w[k]

C5_Witness ==
    /\ last.op = "by_time"
    /\ last.params.is_none
    /\ last.result # PyNone
    /\ "precipitation" \notin DOMAIN last.result
    /\ "temperature" \in DOMAIN last.result
    /\ last.result.temperature = 0
    /\ \E w \in Rows(weather) : w.precipitation = Null /\ w.temperature = 0

\* the observations of city c inside the calendar day of the requested time
InDay(c, target_time) ==
    {w \in ObsOf(c.id) :
        /\ w.timestamp >= StartOfDay(target_time)
        /\ w.timestamp < StartOfDay(target_time) + DayLen}

\* C3: for an existing city, get_weather_by_city_and_time returns not-found
\* exactly when the city has no observation in the day of the requested time,
\* and otherwise an observation of that day nearest to the requested time.
C3_NearestInDay ==
    last.op = "by_time" =>
        \A c \in Named(last.city_name) :
            LET day == InDay(c, last.target_time)
            IN  /\ last.result = PyNone <=> day = {}
                /\ last.result # PyNone =>
                      \E w \in day :
                          /\ last.result.timestamp = w.timestamp
                          /\ \A v \in day :
                                Abs(w.timestamp - last.target_time.wall)
                                   <= Abs(v.timestamp - last.target_time.wall)

\* the same for requested times that carry no UTC offset
NearestInDayNaive == last.op = "by_time" /\ ~last.target_time.aware => C3_NearestInDay

\* with observations at 08:00, 12:00 and 18:00, asking for 13:00 without an
\* offset returns the one of 12:00
NoonExample ==
    (/\ last.op = "by_time"
     /\ last.target_time = [wall |-> 13, aware |-> FALSE]
     /\ \E c \in Named(last.city_name) :
           {w.timestamp : w \in ObsOf(c.id)} = {8, 12, 18})
        => last.result # PyNone /\ last.result.timestamp = 12

NoonExampleReached ==
    /\ last.op = "by_time"
    /\ last.target_time = [wall |-> 13, aware |-> FALSE]
    /\ \E c \in Named(last.city_name) :
          {w.timestamp : w \in ObsOf(c.id)} = {8, 12, 18}
    /\ last.result # PyNone

-----------------------------------------------------------------------------
(* POST /cities: add_city_endpoint, one step per await *)

store == <<last, asked, clock>>

\* the handler returns, or raises the HTTPException that becomes the status
Respond(r, status, fields) ==
    req' = [req EXCEPT ![r] = [k \in DOMAIN req[r] |->
                IF k = "pc" THEN "done"
                ELSE IF k = "status" THEN status
                ELSE IF k \in DOMAIN fields THEN fields[k]
                ELSE req[r][k]]]

\* a request arrives and add_city awaits its SELECT
Post(r, name, latitude, longitude) ==
    /\ req[r].pc = "idle"
    /\ req' = [req EXCEPT ![r].pc = "add_select", ![r].name = name,
                          ![r].latitude = latitude, ![r].longitude = longitude]
    /\ UNCHANGED <<cities, weather, store, sched, cancelRequested, cancelledAt>>

\* add_city: the SELECT completes; an existing city makes it return False
ReqAddSelect(r) ==
    /\ req[r].pc = "add_select"
    /\ IF ExistingCity(cities, req[r].name)
       THEN Respond(r, "400", [ret |-> "False"])
       ELSE req' = [req EXCEPT ![r].pc = "add_commit"]
    /\ UNCHANGED <<cities, weather, store, sched, cancelRequested, cancelledAt>>

\* add_city: session.add and commit; False after a rolled-back IntegrityError
ReqAddCommit(r) ==
    /\ req[r].pc = "add_commit"
    /\ LET res == AddCityCommit(cities, req[r].name, req[r].latitude,
                                req[r].longitude)
       IN  /\ cities' = res.cities
           /\ IF res.ret
              THEN req' = [req EXCEPT ![r].pc = "fetch", ![r].ret = "True"]
              ELSE Respond(r, "400", [ret |-> "False", raced |-> TRUE])
    /\ UNCHANGED <<weather, store, sched, cancelRequested, cancelledAt>>

\* fetch_weather_data returns; without a snapshot the handler returns success
ReqFetch(r, weather_data) ==
    /\ req[r].pc = "fetch"
    /\ IF Truthy(weather_data)
       THEN req' = [req EXCEPT ![r].pc = "lookup",
                               ![r].weather_data = weather_data]
       ELSE Respond(r, "200", [weather_data |-> weather_data])
    /\ UNCHANGED <<cities, weather, store, sched, cancelRequested, cancelledAt>>

\* the SELECT of the city row; its exception leaves the handler (status 500)
ReqLookup(r, ok) ==
    /\ req[r].pc = "lookup"
    /\ LET found == CitiesByName(cities, req[r].name)
       IN  IF ~ok \/ OneOrNone(found) = "raise"
           THEN Respond(r, "500", << >>)
           ELSE IF OneOrNone(found) = "none"
           THEN Respond(r, "200", << >>)
           ELSE req' = [req EXCEPT ![r].pc = "save", ![r].city_id = found[1].id]
    /\ UNCHANGED <<cities, weather, store, sched, cancelRequested, cancelledAt>>

\* save_weather_data: the row is committed, or the failure is printed and
\* swallowed; the handler returns success either way
ReqSave(r, ok) ==
    /\ req[r].pc = "save"
    /\ weather' = IF ok THEN SaveWeatherData(weather, req[r].city_id, clock,
                                             req[r].weather_data)
                  ELSE weather
    /\ Respond(r, "200", [saved |-> ok])
    /\ UNCHANGED <<cities, store, sched, cancelRequested, cancelledAt>>

-----------------------------------------------------------------------------
(* update_weather_periodically, one step per await, and its cancellation *)

\* cancellation observed in the sleep only (a faulty variant)
CancelPointsSleepOnly == {"sleep"}

\* the awaits at which a pending cancellation raises CancelledError in the
\* task; CancelledError is a BaseException, so no "except Exception" catches it
CancelPoints == {"list", "fetch", "lookup", "save", "sleep"}

\* the task has been cancelled and its current await will raise
Interrupted == cancelRequested /\ sched.pc \in CancelPoints

\* a loop without the except clause: the exception ends the task (a faulty
\* variant)
AfterExceptionEscapes == "crashed"

\* where the loop goes when an Exception leaves the cycle body: the except
\* clause prints it and the loop falls through to the sleep
AfterException == "sleep"

\* pc and idx after the body of one iteration of "for city in cities"
NextCity(s) ==
    [s EXCEPT !.idx = s.idx + 1,
              !.pc = IF s.idx + 1 > Len(s.cities) THEN "sleep" ELSE "fetch"]

\* cities = await get_all_cities()
SchedList(ok) ==
    /\ sched.pc = "list"
    /\ ~Interrupted
    /\ sched' = IF ok
                THEN LET cs == GetAllCities(cities)
                     IN  [sched EXCEPT !.cities = cs, !.idx = 1, !.listed = TRUE,
                                       !.pc = IF Len(cs) = 0 THEN "sleep" ELSE "fetch"]
                ELSE [sched EXCEPT !.pc = AfterException, !.failed = TRUE]
    /\ UNCHANGED <<cities, weather, store, req, cancelRequested, cancelledAt>>

\* weather_data = await fetch_weather_data(...): None skips the city
SchedFetch(weather_data) ==
    /\ sched.pc = "fetch"
    /\ ~Interrupted
    /\ LET s == [sched EXCEPT !.fetched = @ \cup {sched.cities[sched.idx].name},
                              !.weather_data = weather_data]
       IN  sched' = IF Truthy(weather_data)
                    THEN [s EXCEPT !.pc = "lookup"]
                    ELSE NextCity([s EXCEPT !.failed = TRUE])
    /\ UNCHANGED <<cities, weather, store, req, cancelRequested, cancelledAt>>

\* the SELECT of the city row, inside the cycle's try block only
SchedLookup(ok) ==
    /\ sched.pc = "lookup"
    /\ ~Interrupted
    /\ LET found == CitiesByName(cities, sched.cities[sched.idx].name)
       IN  sched' = IF ~ok \/ OneOrNone(found) = "raise"
                    THEN [sched EXCEPT !.pc = AfterException, !.failed = TRUE]
                    ELSE IF OneOrNone(found) = "none"
                    THEN NextCity(sched)
                    ELSE [sched EXCEPT !.pc = "save", !.city_id = found[1].id]
    /\ UNCHANGED <<cities, weather, store, req, cancelRequested, cancelledAt>>

\* await save_weather_data(city_obj.id, weather_data)
SchedSave(ok) ==
    /\ sched.pc = "save"
    /\ ~Interrupted
    /\ weather' = IF ok THEN SaveWeatherData(weather, sched.city_id, clock,
                                             sched.weather_data)
                  ELSE weather
    /\ sched' = NextCity([sched EXCEPT !.failed = @ \/ ~ok])
    /\ UNCHANGED <<cities, store, req, cancelRequested, cancelledAt>>

\* await asyncio.sleep(900) returns and "while True" starts the next cycle
SchedWake ==
    /\ sched.pc = "sleep"
    /\ ~Interrupted
    /\ sched.cycles < MaxCycles
    /\ sched' = [sched EXCEPT !.pc = "list", !.cycles = @ + 1, !.cities = << >>,
                              !.idx = 1, !.weather_data = PyNone, !.city_id = 0,
                              !.listed = FALSE, !.fetched = {}, !.failed = FALSE,
                              !.prev_failed = sched.failed]
    /\ UNCHANGED <<cities, weather, store, req, cancelRequested, cancelledAt>>

\* lifespan after its yield: update_task.cancel()
Shutdown ==
    /\ ~cancelRequested
    /\ cancelRequested' = TRUE
    /\ UNCHANGED <<cities, weather, store, req, sched, cancelledAt>>

\* CancelledError is raised at the task's current await and ends the task; a
\* commit already handed to the database may or may not have been carried out
SchedCancelled ==
    /\ Interrupted
    /\ cancelledAt' = sched.pc
    /\ sched' = [sched EXCEPT !.pc = "cancelled"]
    /\ \/ weather' = weather
       \/ /\ sched.pc = "save"
          /\ weather' = SaveWeatherData(weather, sched.city_id, clock,
                                        sched.weather_data)
    /\ UNCHANGED <<cities, store, req, cancelRequested>>

SchedStep ==
    \/ \E ok \in BOOLEAN : SchedList(ok)
    \/ \E wd \in FetchOutcomes({SnapSource}) : SchedFetch(wd)
    \/ \E ok \in BOOLEAN : SchedLookup(ok)
    \/ \E ok \in BOOLEAN : SchedSave(ok)
    \/ SchedWake
    \/ SchedCancelled

ReqStep(rs) ==
    \/ \E r \in rs, name \in Names : Post(r, name, 0, 0)
    \/ \E r \in rs : ReqAddSelect(r)
    \/ \E r \in rs : ReqAddCommit(r)
    \/ \E r \in rs, wd \in FetchOutcomes({SnapSource}) : ReqFetch(r, wd)
    \/ \E r \in rs, ok \in BOOLEAN : ReqLookup(r, ok)
    \/ \E r \in rs, ok \in BOOLEAN : ReqSave(r, ok)

\* concurrent registrations alone
NextRace == ReqStep(Reqs)

SpecRace == Init /\ [][NextRace]_vars

\* two registrations beside the refresh task and the shutdown; the clock is
\* not read anew, so every observation of such a run bears the same timestamp
Next == ReqStep(Handlers) \/ SchedStep \/ Shutdown

Spec == Init /\ [][Next]_vars

\* the event loop runs the refresh task whenever it can take a step
FairSpec == Spec /\ WF_vars(SchedStep)

-----------------------------------------------------------------------------
(* Properties of the running service *)

\* C2: however concurrent add_city calls for one name interleave, storage
\* never holds two city rows with that name, at most one of the calls returns
\* true, and a call that loses the race returns false instead of raising.
C2_OneWinnerPerName ==
    /\ \A n \in Names : Len(CitiesByName(cities, n)) <= 1
    /\ \A r1, r2 \in Reqs :
          (/\ r1 # r2
           /\ req[r1].name = req[r2].name
           /\ req[r1].ret = "True") => req[r2].ret # "True"
    /\ \A r \in Reqs : req[r].raced => req[r].ret = "False" /\ req[r].status = "400"

C2_Witness ==
    \E r1, r2, r3 \in Reqs :
        /\ r2 # r3
        /\ req[r1].name = req[r2].name
        /\ req[r1].name = req[r3].name
        /\ req[r1].ret = "True"
        /\ req[r2].raced /\ req[r2].ret = "False"
        /\ req[r3].raced /\ req[r3].ret = "False"
        /\ Len(CitiesByName(cities, req[r1].name)) = 1

\* C6: at the end of a cycle whose city list was loaded, every city of the list
\* has been fetched, whatever failed for the cities before it.
C6_EveryListedCityFetched ==
    (sched.pc = "sleep" /\ sched.listed) =>
        \A i \in 1 .. Len(sched.cities) : sched.cities[i].name \in sched.fetched

\* the city registered by request r has a stored observation
Observed(r) == \E c \in Named(req[r].name) : ObsOf(c.id) # {}

Ended == sched.pc \in {"cancelled", "crashed"}

\* C10: the refresh loop ends only by cancellation; a cycle in progress, with
\* or without failures, leads to the sleep, and the sleep to the next cycle.
C10_LoopEndsOnlyByCancel ==
    /\ [](Ended => cancelRequested /\ sched.pc = "cancelled")
    /\ (sched.pc \in {"list", "fetch", "lookup", "save"})
          ~> (sched.pc = "sleep" \/ Ended)
    /\ (sched.pc = "sleep" /\ sched.cycles < MaxCycles)
          ~> (sched.pc = "list" \/ Ended)

C10_Witness ==
    /\ sched.prev_failed
    /\ sched.pc = "fetch"
    /\ ~cancelRequested

====
